---------------------------- MODULE Spec2Model ----------------------------
(***************************************************************************)
(* Trajectory interpolation and spatio-temporal conflict detection of the  *)
(* UAV deconfliction system (data_models.py, trajectory.py, detector.py,   *)
(* detector_enhanced.py).                                                  *)
(*                                                                         *)
(* Numbers.  The Python code computes on floats.  Here every time and      *)
(* every coordinate is an exact rational <<num, den>> (den > 0, lowest     *)
(* terms), so a division is a real division and an interpolation is a real *)
(* interpolation.  A Euclidean distance (np.linalg.norm) is carried by its *)
(* square, which is rational; since distances are >= 0, comparing squares  *)
(* is comparing distances.  Leg lengths, which the segment builder divides *)
(* by, are exact because the waypoint lists below only have legs of        *)
(* integral length.                                                        *)
(*                                                                         *)
(* Rounding.  Spec and SpecTraj compute in exact arithmetic: they carry    *)
(* the numeric identities of the interpolation and of the time allocation. *)
(* SpecFloat runs the same code with the timestamps of the segment builder *)
(* computed in floating point: every division, product and sum of          *)
(* compute_segment_times is rounded to the nearest number of MantissaBits  *)
(* significant bits, ties to even, as IEEE 754 does with 53 bits.  It      *)
(* carries what rounding can change: the order of the timestamps and what  *)
(* the detector does with them.                                            *)
(***************************************************************************)
EXTENDS Integers, Sequences, FiniteSets, TLC

\* Python's None
None == <<>>

(***************************************************************************)
(* Exact rational arithmetic.                                              *)
(***************************************************************************)
Abs(n) == IF n < 0 THEN -n ELSE n

RECURSIVE Gcd(_, _)
Gcd(a, b) == IF b = 0 THEN a ELSE Gcd(b, a % b)

Lcm(a, b) == (a \div Gcd(a, b)) * b

RNorm(n, d) ==
    LET g == Gcd(Abs(n), Abs(d))
    IN  IF d < 0 THEN <<(-n) \div g, (-d) \div g>> ELSE <<n \div g, d \div g>>

R(n) == <<n, 1>>

RAdd(a, b) ==
    IF a[2] = b[2]
    THEN IF a[2] = 1 THEN <<a[1] + b[1], 1>> ELSE RNorm(a[1] + b[1], a[2])
    ELSE LET l == Lcm(a[2], b[2])
         IN  RNorm(a[1] * (l \div a[2]) + b[1] * (l \div b[2]), l)

RNeg(a) == <<-a[1], a[2]>>

RSub(a, b) == RAdd(a, RNeg(b))

\* the factors are in lowest terms, so is the cross-reduced product
RMul(a, b) ==
    IF a[2] = 1 /\ b[2] = 1 THEN <<a[1] * b[1], 1>>
    ELSE LET g1 == Gcd(Abs(a[1]), b[2])
             g2 == Gcd(Abs(b[1]), a[2])
         IN  <<(a[1] \div g1) * (b[1] \div g2), (a[2] \div g2) * (b[2] \div g1)>>

\* a / b; b = 0 gives a zero denominator, which is no number
RDiv(a, b) == RMul(a, IF b[1] < 0 THEN <<-b[2], -b[1]>> ELSE <<b[2], b[1]>>)

RLt(a, b) ==
    IF a[2] = b[2] THEN a[1] < b[1]
    ELSE LET l == Lcm(a[2], b[2])
         IN  a[1] * (l \div a[2]) < b[1] * (l \div b[2])

RLe(a, b) == a = b \/ RLt(a, b)

RMax(a, b) == IF RLt(a, b) THEN b ELSE a

RMin(a, b) == IF RLt(b, a) THEN b ELSE a

\* float('inf') and the order on squared distances that includes it
Inf == <<1, 0>>

DLt(a, b) == a # Inf /\ (b = Inf \/ RLt(a, b))

\* the exact square root of a perfect square
Sqrt(n) == CHOOSE r \in 0..n : r * r = n

\* endpoint = False: num values spaced (b - a) / num apart, b left out
linspace_open(a, b, num) ==
    [i \in 1..num |-> RAdd(a, RMul(R(i - 1), RDiv(RSub(b, a), R(num))))]

\* np.linspace(a, b, num): num evenly spaced values, both ends included
linspace(a, b, num) ==
    [i \in 1..num |->
        IF num = 1 THEN a
        ELSE IF i = num THEN b
        ELSE RAdd(a, RMul(R(i - 1), RDiv(RSub(b, a), R(num - 1))))]

(***************************************************************************)
(* data_models.py                                                          *)
(***************************************************************************)
\* Waypoint(x, y, z = 0.0)
Waypoint(x, y, z) == [x |-> x, y |-> y, z |-> z]

\* the (x, y) vector in units half as long; the (x, y, z) vector as it is
to_array_planar_scaled(wp, include_z) ==
    IF include_z THEN <<R(wp.x), R(wp.y), R(wp.z)>>
    ELSE <<R(2 * wp.x), R(2 * wp.y)>>

\* np.array([self.x, self.y, 0.0]): the altitude is left out of the 3D vector
to_array_flat(wp, include_z) ==
    IF include_z THEN <<R(wp.x), R(wp.y), R(0)>> ELSE <<R(wp.x), R(wp.y)>>

\* Waypoint.to_array: the (x, y) or (x, y, z) vector
to_array(wp, include_z) ==
    IF include_z THEN <<R(wp.x), R(wp.y), R(wp.z)>> ELSE <<R(wp.x), R(wp.y)>>

\* t_start > t_end in place of t_start >= t_end
FlightErrorAllowsEmptyWindow(id, waypoints, t_start, t_end, speed) ==
    IF Len(waypoints) < 2 THEN "must have at least 2 waypoints"
    ELSE IF t_start > t_end THEN "t_start must be < t_end"
    ELSE IF speed <= 0 THEN "speed must be positive"
    ELSE "ok"

\* Flight.__post_init__: the message of the first check that fails, or "ok"
FlightError(id, waypoints, t_start, t_end, speed) ==
    IF Len(waypoints) < 2 THEN "must have at least 2 waypoints"
    ELSE IF t_start >= t_end THEN "t_start must be < t_end"
    ELSE IF speed <= 0 THEN "speed must be positive"
    ELSE "ok"

Flight(id, waypoints, t_start, t_end, speed) ==
    [id |-> id, waypoints |-> waypoints, t_start |-> t_start,
     t_end |-> t_end, speed |-> speed]

\* Flight.is_3d
is_3d(flight) == \E i \in 1..Len(flight.waypoints) : flight.waypoints[i].z # 0

Segment(start, end, t_start, t_end, flight_id) ==
    [start |-> start, end |-> end, t_start |-> t_start, t_end |-> t_end,
     flight_id |-> flight_id]

\* component-wise operations of numpy arrays of 2 or 3 coordinates
VSub(u, v) == [k \in DOMAIN u |-> RSub(u[k], v[k])]

VAdd(u, v) == [k \in DOMAIN u |-> RAdd(u[k], v[k])]

VScale(c, u) == [k \in DOMAIN u |-> RMul(c, u[k])]

RECURSIVE SumSq(_, _)
SumSq(u, k) == IF k = 0 THEN R(0) ELSE RAdd(SumSq(u, k - 1), RMul(u[k], u[k]))

\* np.linalg.norm(u), squared
Norm2(u) == SumSq(u, Len(u))

\* the ValueError raised by Segment.position_at_time, and the same exception
\* leaving segment_conflict
ValueError == <<"ValueError">>

Raised == [exception |-> "ValueError"]

\* to_array() without include_z: the position is always the (x, y) one
position_at_time_planar(seg, t, include_z) ==
    IF RLt(t, seg.t_start) \/ RLt(seg.t_end, t) THEN ValueError
    ELSE IF seg.t_start = seg.t_end THEN to_array(seg.start, FALSE)
    ELSE LET alpha == RDiv(RSub(t, seg.t_start), RSub(seg.t_end, seg.t_start))
             start_pos == to_array(seg.start, FALSE)
             end_pos == to_array(seg.end, FALSE)
         IN  VAdd(start_pos, VScale(alpha, VSub(end_pos, start_pos)))

\* the zero-duration test comes before the range test
position_at_time_regardless(seg, t, include_z) ==
    IF seg.t_start = seg.t_end THEN to_array(seg.start, include_z)
    ELSE IF RLt(t, seg.t_start) \/ RLt(seg.t_end, t) THEN ValueError
    ELSE LET alpha == RDiv(RSub(t, seg.t_start), RSub(seg.t_end, seg.t_start))
             start_pos == to_array(seg.start, include_z)
             end_pos == to_array(seg.end, include_z)
         IN  VAdd(start_pos, VScale(alpha, VSub(end_pos, start_pos)))

\* alpha = (t - t_start) / t_end: the start time is not taken off the divisor
position_at_time_divisor(seg, t, include_z) ==
    IF RLt(t, seg.t_start) \/ RLt(seg.t_end, t) THEN ValueError
    ELSE IF seg.t_start = seg.t_end THEN to_array(seg.start, include_z)
    ELSE LET alpha == RDiv(RSub(t, seg.t_start), seg.t_end)
             start_pos == to_array(seg.start, include_z)
             end_pos == to_array(seg.end, include_z)
         IN  VAdd(start_pos, VScale(alpha, VSub(end_pos, start_pos)))

\* t <= t_start or t >= t_end: the ends of the span are out of range
position_at_time_open(seg, t, include_z) ==
    IF RLe(t, seg.t_start) \/ RLe(seg.t_end, t) THEN ValueError
    ELSE IF seg.t_start = seg.t_end THEN to_array(seg.start, include_z)
    ELSE LET alpha == RDiv(RSub(t, seg.t_start), RSub(seg.t_end, seg.t_start))
             start_pos == to_array(seg.start, include_z)
             end_pos == to_array(seg.end, include_z)
         IN  VAdd(start_pos, VScale(alpha, VSub(end_pos, start_pos)))

\* Segment.position_at_time(t, include_z)
position_at_time(seg, t, include_z) ==
    IF RLt(t, seg.t_start) \/ RLt(seg.t_end, t) THEN ValueError
    ELSE IF seg.t_start = seg.t_end THEN to_array(seg.start, include_z)
    ELSE LET alpha == RDiv(RSub(t, seg.t_start), RSub(seg.t_end, seg.t_start))
             start_pos == to_array(seg.start, include_z)
             end_pos == to_array(seg.end, include_z)
         IN  VAdd(start_pos, VScale(alpha, VSub(end_pos, start_pos)))

(***************************************************************************)
(* trajectory.py                                                           *)
(***************************************************************************)
\* to_array() without flight.is_3d(): legs are measured in (x, y) only
LegLength2D(flight, i) ==
    LET start == to_array(flight.waypoints[i], FALSE)
        end == to_array(flight.waypoints[i + 1], FALSE)
    IN  Sqrt(Norm2(VSub(end, start))[1])

\* the Euclidean length of leg i of the flight, with z iff the flight is 3D
LegLength(flight, i) ==
    LET start == to_array(flight.waypoints[i], is_3d(flight))
        end == to_array(flight.waypoints[i + 1], is_3d(flight))
    IN  Sqrt(Norm2(VSub(end, start))[1])

RECURSIVE SumLengths(_, _)
SumLengths(flight, k) ==
    IF k = 0 THEN 0 ELSE SumLengths(flight, k - 1) + LegLength(flight, k)

\* cumulative_time = 0 in place of cumulative_time = flight.t_start
RECURSIVE CumulativeTimeFromZero(_, _, _)
CumulativeTimeFromZero(flight, total_length, k) ==
    IF k = 0 THEN R(0)
    ELSE LET time_for_segment ==
                 RMul(RDiv(R(LegLength(flight, k)), R(total_length)),
                      R(flight.t_end - flight.t_start))
         IN  RAdd(CumulativeTimeFromZero(flight, total_length, k - 1),
                  time_for_segment)

\* cumulative_time after the first k legs of the proportional allocation
RECURSIVE CumulativeTime(_, _, _)
CumulativeTime(flight, total_length, k) ==
    IF k = 0 THEN R(flight.t_start)
    ELSE LET time_for_segment ==
                 RMul(RDiv(R(LegLength(flight, k)), R(total_length)),
                      R(flight.t_end - flight.t_start))
         IN  RAdd(CumulativeTime(flight, total_length, k - 1), time_for_segment)

\* no even spacing: with a total length of zero every leg but the last gets
\* no time
compute_segment_times_stalled(flight) ==
    LET n_waypoints == Len(flight.waypoints)
        total_length == SumLengths(flight, n_waypoints - 1)
    IN  [i \in 1..n_waypoints |->
            IF i = n_waypoints THEN R(flight.t_end)
            ELSE IF total_length = 0 THEN R(flight.t_start)
            ELSE CumulativeTime(flight, total_length, i - 1)]

\* compute_segment_times(flight): one timestamp per waypoint
compute_segment_times(flight) ==
    LET n_waypoints == Len(flight.waypoints)
        total_length == SumLengths(flight, n_waypoints - 1)
    IN  IF total_length = 0
        THEN linspace(R(flight.t_start), R(flight.t_end), n_waypoints)
        ELSE [i \in 1..n_waypoints |->
                 IF i = n_waypoints THEN R(flight.t_end)
                 ELSE CumulativeTime(flight, total_length, i - 1)]

\* range(len(flight.waypoints) - 2): the last leg is left out
build_segments_short(flight) ==
    LET times == compute_segment_times(flight)
    IN  [i \in 1..(Len(flight.waypoints) - 2) |->
            Segment(flight.waypoints[i], flight.waypoints[i + 1],
                    times[i], times[i + 1], flight.id)]

\* build_segments(flight)
build_segments(flight) ==
    LET times == compute_segment_times(flight)
    IN  [i \in 1..(Len(flight.waypoints) - 1) |->
            Segment(flight.waypoints[i], flight.waypoints[i + 1],
                    times[i], times[i + 1], flight.id)]

(***************************************************************************)
(* trajectory.py in floating point                                         *)
(***************************************************************************)
\* the number of significant bits of a float of the model (binary64: 53)
MantissaBits == 9

RECURSIVE Pow2(_)
Pow2(k) == IF k = 0 THEN 1 ELSE 2 * Pow2(k - 1)

\* the float nearest to a / d for a, d > 0: the quotient is scaled into
\* [2^(MantissaBits-1), 2^MantissaBits), rounded to the nearest integer, ties
\* to the even one, and scaled back
RECURSIVE FlRound(_, _)
FlRound(a, d) ==
    IF a >= d * Pow2(MantissaBits) THEN RMul(R(2), FlRound(a, 2 * d))
    ELSE IF a < d * Pow2(MantissaBits - 1) THEN RMul(<<1, 2>>, FlRound(2 * a, d))
    ELSE LET q == a \div d
             r == a % d
         IN  IF 2 * r > d \/ (2 * r = d /\ q % 2 = 1) THEN R(q + 1) ELSE R(q)

\* the float a real number is rounded to
Fl(x) ==
    IF x[1] = 0 THEN x
    ELSE IF x[1] < 0 THEN RNeg(FlRound(-x[1], x[2]))
    ELSE FlRound(x[1], x[2])

\* np.linspace(a, b, num) on floats: step = (b - a) / (num - 1),
\* y[i] = i * step + a, and the last value is set to b
linspace_float(a, b, num) ==
    LET step == Fl(RDiv(Fl(RSub(b, a)), R(num - 1)))
    IN  [i \in 1..num |->
            IF num = 1 THEN a
            ELSE IF i = num THEN b
            ELSE Fl(RAdd(Fl(RMul(R(i - 1), step)), a))]

\* cumulative_time after the first k legs, every operation rounded
RECURSIVE CumulativeTimeFloat(_, _, _)
CumulativeTimeFloat(flight, total_length, k) ==
    IF k = 0 THEN R(flight.t_start)
    ELSE LET total_duration == Fl(R(flight.t_end - flight.t_start))
             time_for_segment ==
                 Fl(RMul(Fl(RDiv(R(LegLength(flight, k)), R(total_length))),
                         total_duration))
         IN  Fl(RAdd(CumulativeTimeFloat(flight, total_length, k - 1),
                     time_for_segment))

\* compute_segment_times(flight) on floats
compute_segment_times_float(flight) ==
    LET n_waypoints == Len(flight.waypoints)
        total_length == SumLengths(flight, n_waypoints - 1)
    IN  IF total_length = 0
        THEN linspace_float(R(flight.t_start), R(flight.t_end), n_waypoints)
        ELSE [i \in 1..n_waypoints |->
                 IF i = n_waypoints THEN R(flight.t_end)
                 ELSE CumulativeTimeFloat(flight, total_length, i - 1)]

\* build_segments(flight) on the float timestamps
build_segments_float(flight) ==
    LET times == compute_segment_times_float(flight)
    IN  [i \in 1..(Len(flight.waypoints) - 1) |->
            Segment(flight.waypoints[i], flight.waypoints[i + 1],
                    times[i], times[i + 1], flight.id)]

(***************************************************************************)
(* detector.py / detector_enhanced.py                                      *)
(***************************************************************************)
\* only the first test: the second window ending before the first starts
\* is not looked at
time_windows_overlap_oneside(t1_start, t1_end, t2_start, t2_end) ==
    ~RLt(t1_end, t2_start)

\* "and" in place of "or" between the two tests
time_windows_overlap_and(t1_start, t1_end, t2_start, t2_end) ==
    ~(RLt(t1_end, t2_start) /\ RLt(t2_end, t1_start))

\* time_windows_overlap(t1_start, t1_end, t2_start, t2_end)
time_windows_overlap(t1_start, t1_end, t2_start, t2_end) ==
    ~(RLt(t1_end, t2_start) \/ RLt(t2_end, t1_start))

\* compute_overlap_window: <<overlap_start, overlap_end>> or None
compute_overlap_window(t1_start, t1_end, t2_start, t2_end) ==
    IF ~time_windows_overlap(t1_start, t1_end, t2_start, t2_end) THEN None
    ELSE <<RMax(t1_start, t2_start), RMin(t1_end, t2_end)>>

\* Conflict record; min_distance is carried by its square
Conflict(primary_flight_id, conflicting_flight_id, location, time, min_distance_sq, safety_buffer) ==
    [primary_flight_id |-> primary_flight_id,
     conflicting_flight_id |-> conflicting_flight_id,
     location |-> location, time |-> time,
     min_distance_sq |-> min_distance_sq, safety_buffer |-> safety_buffer]

\* the tracked minimum before the sampling loop
TrackInit ==
    [min_distance_sq |-> Inf, conflict_time |-> None,
     conflict_location |-> None, raised |-> FALSE]

\* distance <= min_distance: a later sample that ties replaces the record
TrackStepLatest(tr, seg1, seg2, t, include_z) ==
    LET pos1 == position_at_time(seg1, t, include_z)
        pos2 == position_at_time(seg2, t, include_z)
    IN  IF tr.raised THEN tr
        ELSE IF pos1 = ValueError \/ pos2 = ValueError
        THEN [tr EXCEPT !.raised = TRUE]
        ELSE LET distance_sq == Norm2(VSub(pos1, pos2))
             IN  IF ~DLt(tr.min_distance_sq, distance_sq)
                 THEN [tr EXCEPT !.min_distance_sq = distance_sq,
                                 !.conflict_time = t,
                                 !.conflict_location = pos1]
                 ELSE tr

\* conflict_location = pos2: the other drone's location is recorded
TrackStepOther(tr, seg1, seg2, t, include_z) ==
    LET pos1 == position_at_time(seg1, t, include_z)
        pos2 == position_at_time(seg2, t, include_z)
    IN  IF tr.raised THEN tr
        ELSE IF pos1 = ValueError \/ pos2 = ValueError
        THEN [tr EXCEPT !.raised = TRUE]
        ELSE LET distance_sq == Norm2(VSub(pos1, pos2))
             IN  IF DLt(distance_sq, tr.min_distance_sq)
                 THEN [tr EXCEPT !.min_distance_sq = distance_sq,
                                 !.conflict_time = t,
                                 !.conflict_location = pos2]
                 ELSE tr

\* one iteration of the sampling loop of segment_conflict at timestamp t
TrackStep(tr, seg1, seg2, t, include_z) ==
    LET pos1 == position_at_time(seg1, t, include_z)
        pos2 == position_at_time(seg2, t, include_z)
    IN  IF tr.raised THEN tr
        ELSE IF pos1 = ValueError \/ pos2 = ValueError
        THEN [tr EXCEPT !.raised = TRUE]
        ELSE LET distance_sq == Norm2(VSub(pos1, pos2))
             IN  IF DLt(distance_sq, tr.min_distance_sq)
                 THEN [tr EXCEPT !.min_distance_sq = distance_sq,
                                 !.conflict_time = t,
                                 !.conflict_location = pos1]
                 ELSE tr

\* the sampling loop over time_points[1..k]
RECURSIVE Track(_, _, _, _, _)
Track(seg1, seg2, time_points, k, include_z) ==
    IF k = 0 THEN TrackInit
    ELSE TrackStep(Track(seg1, seg2, time_points, k - 1, include_z),
                   seg1, seg2, time_points[k], include_z)

\* the buffer is compared by its size, whatever its sign
BelowBufferSize(min_distance_sq, safety_buffer) ==
    /\ min_distance_sq # Inf
    /\ RLt(min_distance_sq, R(safety_buffer * safety_buffer))

\* min_distance > safety_buffer in place of <
AboveBuffer(min_distance_sq, safety_buffer) ==
    /\ min_distance_sq # Inf
    /\ (safety_buffer < 0 \/ RLt(R(safety_buffer * safety_buffer), min_distance_sq))

\* min_distance <= safety_buffer in place of <
AtOrBelowBuffer(min_distance_sq, safety_buffer) ==
    /\ min_distance_sq # Inf
    /\ safety_buffer >= 0
    /\ RLe(min_distance_sq, R(safety_buffer * safety_buffer))

\* min_distance < safety_buffer, on the square of min_distance
BelowBuffer(min_distance_sq, safety_buffer) ==
    /\ min_distance_sq # Inf
    /\ safety_buffer > 0
    /\ RLt(min_distance_sq, R(safety_buffer * safety_buffer))

\* segment_conflict / segment_conflict_high_accuracy: a Conflict, None, or
\* Raised when position_at_time raises
segment_conflict(seg1, seg2, safety_buffer, include_z, time_samples) ==
    LET overlap == compute_overlap_window(seg1.t_start, seg1.t_end,
                                          seg2.t_start, seg2.t_end)
    IN  IF overlap = None THEN None
        ELSE LET time_points == linspace(overlap[1], overlap[2], time_samples)
                 tr == Track(seg1, seg2, time_points, time_samples, include_z)
             IN  IF tr.raised THEN Raised
                 ELSE IF BelowBuffer(tr.min_distance_sq, safety_buffer)
                 THEN Conflict(seg1.flight_id, seg2.flight_id,
                               tr.conflict_location, tr.conflict_time,
                               tr.min_distance_sq, safety_buffer)
                 ELSE None

\* a verdict that tolerates one conflict
IsClearUpToOne(all_conflicts) == Len(all_conflicts) <= 1

\* is_clear = len(all_conflicts) == 0
IsClear(all_conflicts) == Len(all_conflicts) = 0

\* the sample count of the standard detector (time_samples: int = 20)
DefaultTimeSamples == 20

\* The locals of check_mission on entry, primary_segments built.  Three logs
\* record what the call does: calls, the (other mission f, primary segment
\* p, other segment s) handed to the pairwise detector and what it returned;
\* sources, the <<f, p, s>> behind each entry of all_conflicts; builds, the
\* missions build_segments was called on (0 is the primary, f the f-th other
\* mission).
EnterCheck(primary) ==
    [primary_segments |-> build_segments(primary), all_conflicts |-> <<>>,
     sim_segments |-> <<>>, f |-> 0, p |-> 0, s |-> 0,
     calls |-> <<>>, sources |-> <<>>, builds |-> <<0>>]

\* for sim_flight in simulated_flights: the next other mission, its segments
\* built, the segment loops at their first pair
EnterSimFlight(fr, simulated_flights) ==
    [fr EXCEPT !.f = fr.f + 1,
               !.sim_segments = build_segments(simulated_flights[fr.f + 1]),
               !.p = 1, !.s = 1,
               !.builds = Append(@, fr.f + 1)]

\* all_conflicts.insert(0, conflict) in place of append
PrependConflict(fr, conflict) ==
    IF conflict # None
    THEN [fr EXCEPT !.all_conflicts = <<conflict>> \o @,
                    !.sources = <<<<fr.f, fr.p, fr.s>>>> \o @]
    ELSE fr

\* if conflict is not None: all_conflicts.append(conflict)
AppendConflict(fr, conflict) ==
    IF conflict # None
    THEN [fr EXCEPT !.all_conflicts = Append(@, conflict),
                    !.sources = Append(@, <<fr.f, fr.p, fr.s>>)]
    ELSE fr

\* the inner loop over sim_segments[:-1]: the last segment of an other
\* mission that has several is skipped
NextPairSkipLast(fr) ==
    IF fr.s + 1 < Len(fr.sim_segments)
    THEN [fr EXCEPT !.s = fr.s + 1]
    ELSE [fr EXCEPT !.p = fr.p + 1, !.s = 1]

\* for p_seg in primary_segments: for s_seg in sim_segments: the pair after
\* (p, s); p past the last primary segment when the loops are over
NextPair(fr) ==
    IF fr.s < Len(fr.sim_segments)
    THEN [fr EXCEPT !.s = fr.s + 1]
    ELSE [fr EXCEPT !.p = fr.p + 1, !.s = 1]

(***************************************************************************)
(* The callers' inputs.                                                    *)
(***************************************************************************)
\* the most other missions handed to one check
MaxOthers == 2

\* the largest sample count handed to the high-accuracy detector
MaxTimeSamples == 3

\* waypoint lists: an L of two legs of length 4, and drones hovering at one
\* point (all waypoints coincide)
PathL == <<Waypoint(0, 0, 0), Waypoint(4, 0, 0), Waypoint(4, 4, 0)>>

PathHoverA == <<Waypoint(4, 3, 0), Waypoint(4, 3, 0)>>

PathHoverB == <<Waypoint(1, 0, 0), Waypoint(1, 0, 0)>>

\* the arguments of the Flight constructor used for the missions of a check:
\* <<id, waypoints, t_start, t_end, speed>>
MissionArgs ==
    { <<"L", PathL, 0, 8, 5>>,
      <<"HA", PathHoverA, 0, 8, 5>>,
      <<"HB", PathHoverB, 0, 12, 5>>,
      <<"L9", PathL, 9, 12, 5>>,
      <<"bad", <<Waypoint(0, 0, 0)>>, 0, 8, 5>> }

SafetyBuffers == {2, 3}

(***************************************************************************)
(* State: the Flight objects constructed so far (flights[1] is the primary *)
(* mission of a check, the rest are the other missions, in order), the     *)
(* last call made and what it returned or raised; while check_mission runs,*)
(* the place it is at (pc) and its locals (frame).                         *)
(***************************************************************************)
VARIABLES flights, call, result, pc, frame

vars == <<flights, call, result, pc, frame>>

Init ==
    /\ flights = <<>>
    /\ call = [op |-> "none"]
    /\ result = [raised |-> FALSE]
    /\ pc = "idle"
    /\ frame = None

\* The caller constructs its missions and then makes one call; an exception
\* is not caught and ends the run.
Constructing == pc = "idle" /\ ~result.raised

\* Flight(id, waypoints, t_start, t_end, speed): __post_init__ raises
\* ValueError, or the object is constructed
NewFlight(id, waypoints, t_start, t_end, speed) ==
    LET err == FlightError(id, waypoints, t_start, t_end, speed)
    IN  /\ Constructing
        /\ Len(flights) < 1 + MaxOthers
        /\ call' = [op |-> "Flight", id |-> id, waypoints |-> waypoints,
                    t_start |-> t_start, t_end |-> t_end, speed |-> speed]
        /\ IF err # "ok"
           THEN /\ result' = [raised |-> TRUE, message |-> err]
                /\ pc' = "done"
                /\ UNCHANGED flights
           ELSE /\ result' = [raised |-> FALSE,
                              value |-> Flight(id, waypoints, t_start, t_end, speed)]
                /\ flights' = Append(flights, result'.value)
                /\ pc' = pc
        /\ UNCHANGED frame

NewMission == \E a \in MissionArgs : NewFlight(a[1], a[2], a[3], a[4], a[5])

\* detector.check_mission(flights[1], flights[2..], safety_buffer, include_z):
\* entry, up to the loop over the other missions
CheckMission ==
    \E safety_buffer \in SafetyBuffers, include_z \in BOOLEAN :
        /\ Constructing
        /\ Len(flights) >= 1
        /\ call' = [op |-> "check_mission", primary |-> Head(flights),
                    simulated_flights |-> Tail(flights),
                    safety_buffer |-> safety_buffer, include_z |-> include_z,
                    time_samples |-> DefaultTimeSamples]
        /\ frame' = EnterCheck(Head(flights))
        /\ pc' = "for_sim_flight"
        /\ UNCHANGED <<flights, result>>

\* detector_enhanced.check_mission_high_accuracy(flights[1], flights[2..],
\* safety_buffer, include_z, time_samples): entry
CheckMissionHighAccuracy ==
    \E safety_buffer \in SafetyBuffers, include_z \in BOOLEAN,
       time_samples \in 1..MaxTimeSamples :
        /\ Constructing
        /\ Len(flights) >= 1
        /\ call' = [op |-> "check_mission_high_accuracy",
                    primary |-> Head(flights),
                    simulated_flights |-> Tail(flights),
                    safety_buffer |-> safety_buffer, include_z |-> include_z,
                    time_samples |-> time_samples]
        /\ frame' = EnterCheck(Head(flights))
        /\ pc' = "for_sim_flight"
        /\ UNCHANGED <<flights, result>>

\* the head of the loop over simulated_flights: the next one, or the return
\* of (is_clear, all_conflicts)
ForSimFlight ==
    /\ pc = "for_sim_flight"
    /\ IF frame.f < Len(call.simulated_flights)
       THEN /\ frame' = EnterSimFlight(frame, call.simulated_flights)
            /\ pc' = "for_segments"
            /\ UNCHANGED result
       ELSE /\ result' = [raised |-> FALSE,
                          is_clear |-> IsClear(frame.all_conflicts),
                          all_conflicts |-> frame.all_conflicts]
            /\ pc' = "done"
            /\ UNCHANGED frame
    /\ UNCHANGED <<flights, call>>

\* the body of the segment loops on the pair (p, s), and the step to the next
\* pair; an exception of the pairwise detector ends the call
ForSegments ==
    /\ pc = "for_segments"
    /\ LET conflict == segment_conflict(frame.primary_segments[frame.p],
                                        frame.sim_segments[frame.s],
                                        call.safety_buffer, call.include_z,
                                        call.time_samples)
           called == [frame EXCEPT !.calls =
                         Append(@, [f |-> frame.f, p |-> frame.p, s |-> frame.s,
                                    conflict |-> conflict])]
       IN  IF conflict = Raised
           THEN /\ frame' = called
                /\ result' = [raised |-> TRUE]
                /\ pc' = "done"
           ELSE /\ frame' = NextPair(AppendConflict(called, conflict))
                /\ pc' = IF frame'.p > Len(frame.primary_segments)
                         THEN "for_sim_flight" ELSE "for_segments"
                /\ UNCHANGED result
    /\ UNCHANGED <<flights, call>>

\* the sample counts handed to the pairwise detector
TimeSampleChoices == (1..MaxTimeSamples) \cup {DefaultTimeSamples}

\* segment_conflict(seg1, seg2, safety_buffer, include_z, time_samples) on a
\* segment of the first mission and a segment of the second
SegmentConflict ==
    \E safety_buffer \in SafetyBuffers, include_z \in BOOLEAN,
       time_samples \in TimeSampleChoices :
        /\ Constructing
        /\ Len(flights) = 2
        /\ \E p \in 1..(Len(flights[1].waypoints) - 1),
              s \in 1..(Len(flights[2].waypoints) - 1) :
               LET seg1 == build_segments(flights[1])[p]
                   seg2 == build_segments(flights[2])[s]
                   conflict == segment_conflict(seg1, seg2, safety_buffer,
                                                include_z, time_samples)
               IN  /\ call' = [op |-> "segment_conflict", seg1 |-> seg1,
                               seg2 |-> seg2, safety_buffer |-> safety_buffer,
                               include_z |-> include_z,
                               time_samples |-> time_samples]
                   /\ result' = [raised |-> conflict = Raised,
                                 value |-> conflict]
        /\ pc' = "done"
        /\ UNCHANGED <<flights, frame>>

Next ==
    \/ NewMission
    \/ CheckMission
    \/ CheckMissionHighAccuracy
    \/ ForSimFlight
    \/ ForSegments
    \/ SegmentConflict

\* segment_conflict and check_mission
Spec == Init /\ [][Next]_vars

(***************************************************************************)
(* The mission model, the segment builder and the position interpolator on *)
(* one mission.                                                            *)
(***************************************************************************)
PathPoint == <<Waypoint(0, 0, 0)>>

PathCoincident3 == <<Waypoint(5, 5, 0), Waypoint(5, 5, 0), Waypoint(5, 5, 0)>>

PathDiagonal == <<Waypoint(0, 0, 0), Waypoint(3, 4, 0)>>

PathUneven == <<Waypoint(0, 0, 0), Waypoint(3, 0, 0), Waypoint(3, 4, 0)>>

PathStall == <<Waypoint(0, 0, 0), Waypoint(0, 0, 0), Waypoint(4, 0, 0)>>

PathStallEnd == <<Waypoint(0, 0, 0), Waypoint(4, 0, 0), Waypoint(4, 0, 0)>>

PathClimb == <<Waypoint(0, 0, 0), Waypoint(0, 0, 3), Waypoint(4, 0, 3)>>

\* three legs of lengths 1, 4 and 0: the mission ends hovering at its last
\* waypoint
PathFifths ==
    <<Waypoint(0, 0, 0), Waypoint(1, 0, 0), Waypoint(5, 0, 0), Waypoint(5, 0, 0)>>

WaypointLists ==
    { <<>>, PathPoint, PathL, PathHoverA, PathCoincident3, PathDiagonal,
      PathUneven, PathStall, PathStallEnd, PathClimb, PathFifths }

WindowTimes == {0, 7, 10}

Speeds == {-1, 0, 5}

\* any constructor call, as the first thing the caller does
NewAnyFlight ==
    /\ flights = <<>>
    /\ \E waypoints \in WaypointLists, t_start \in WindowTimes,
          t_end \in WindowTimes, speed \in Speeds :
           \E id \in {"F", "G"} : NewFlight(id, waypoints, t_start, t_end, speed)

\* compute_segment_times(flights[1])
ComputeSegmentTimes ==
    /\ Constructing
    /\ Len(flights) = 1
    /\ call' = [op |-> "compute_segment_times", flight |-> flights[1]]
    /\ result' = [raised |-> FALSE, value |-> compute_segment_times(flights[1])]
    /\ pc' = "done"
    /\ UNCHANGED <<flights, frame>>

\* build_segments(flights[1])
BuildSegments ==
    /\ Constructing
    /\ Len(flights) = 1
    /\ call' = [op |-> "build_segments", flight |-> flights[1]]
    /\ result' = [raised |-> FALSE, value |-> build_segments(flights[1])]
    /\ pc' = "done"
    /\ UNCHANGED <<flights, frame>>

\* the timestamps a caller asks a segment's position at: its ends, its
\* middle, one second outside on either side, and the window times
ProbeTimes(seg) ==
    { seg.t_start, seg.t_end,
      RDiv(RAdd(seg.t_start, seg.t_end), R(2)),
      RSub(seg.t_start, R(1)), RAdd(seg.t_end, R(1)) }
    \cup { R(t) : t \in WindowTimes }

\* build_segments(flights[1])[i].position_at_time(t, include_z)
PositionAtTime ==
    /\ Constructing
    /\ Len(flights) = 1
    /\ \E i \in 1..(Len(flights[1].waypoints) - 1), include_z \in BOOLEAN :
           LET seg == build_segments(flights[1])[i]
           IN  \E t \in ProbeTimes(seg) :
                   LET pos == position_at_time(seg, t, include_z)
                   IN  /\ call' = [op |-> "position_at_time", seg |-> seg,
                                   t |-> t, include_z |-> include_z]
                       /\ result' = [raised |-> pos = ValueError, value |-> pos]
    /\ pc' = "done"
    /\ UNCHANGED <<flights, frame>>

NextTraj == NewAnyFlight \/ ComputeSegmentTimes \/ BuildSegments \/ PositionAtTime

SpecTraj == Init /\ [][NextTraj]_vars

(***************************************************************************)
(* The detector on missions that cross, at one altitude and at several.    *)
(***************************************************************************)
\* one leg along x at ground level
PathEast == <<Waypoint(0, 0, 0), Waypoint(4, 0, 0)>>

\* one leg along y at altitude 3 that passes over the middle of PathEast
PathNorthHigh == <<Waypoint(2, -2, 3), Waypoint(2, 2, 3)>>

\* a vertical climb from the middle of PathEast
PathRise == <<Waypoint(2, 0, 0), Waypoint(2, 0, 4)>>

\* hovering at the middle of PathEast
PathHoverMid == <<Waypoint(2, 0, 0), Waypoint(2, 0, 0)>>

CrossMissionArgs ==
    { <<"A", PathEast, 0, 4, 5>>,
      <<"B", PathNorthHigh, 0, 4, 5>>,
      <<"C", PathRise, 0, 4, 5>>,
      <<"M", PathHoverMid, 0, 4, 5>> }

NewCrossMission ==
    \E a \in CrossMissionArgs : NewFlight(a[1], a[2], a[3], a[4], a[5])

NextCross ==
    \/ NewCrossMission
    \/ CheckMission
    \/ ForSimFlight
    \/ ForSegments
    \/ SegmentConflict

SpecCross == Init /\ [][NextCross]_vars

(***************************************************************************)
(* The same calls with the segment builder computing in floating point.    *)
(***************************************************************************)
FloatMissionArgs ==
    { <<"E", PathFifths, 0, 3, 5>>,
      <<"L", PathL, 0, 8, 5>>,
      <<"HB", PathHoverB, 0, 12, 5>> }

NewFloatMission ==
    \E a \in FloatMissionArgs : NewFlight(a[1], a[2], a[3], a[4], a[5])

\* compute_segment_times(flights[1])
ComputeSegmentTimesFloat ==
    /\ Constructing
    /\ Len(flights) = 1
    /\ call' = [op |-> "compute_segment_times", flight |-> flights[1]]
    /\ result' = [raised |-> FALSE,
                  value |-> compute_segment_times_float(flights[1])]
    /\ pc' = "done"
    /\ UNCHANGED <<flights, frame>>

\* build_segments(flights[1])
BuildSegmentsFloat ==
    /\ Constructing
    /\ Len(flights) = 1
    /\ call' = [op |-> "build_segments", flight |-> flights[1]]
    /\ result' = [raised |-> FALSE, value |-> build_segments_float(flights[1])]
    /\ pc' = "done"
    /\ UNCHANGED <<flights, frame>>

\* the locals of check_mission on entry
EnterCheckFloat(primary) ==
    [EnterCheck(primary) EXCEPT !.primary_segments = build_segments_float(primary)]

\* for sim_flight in simulated_flights: the next other mission
EnterSimFlightFloat(fr, simulated_flights) ==
    [EnterSimFlight(fr, simulated_flights) EXCEPT
        !.sim_segments = build_segments_float(simulated_flights[fr.f + 1])]

\* detector.check_mission(flights[1], flights[2..], safety_buffer, include_z):
\* entry
CheckMissionFloat ==
    \E safety_buffer \in SafetyBuffers, include_z \in BOOLEAN :
        /\ Constructing
        /\ Len(flights) >= 1
        /\ call' = [op |-> "check_mission", primary |-> Head(flights),
                    simulated_flights |-> Tail(flights),
                    safety_buffer |-> safety_buffer, include_z |-> include_z,
                    time_samples |-> DefaultTimeSamples]
        /\ frame' = EnterCheckFloat(Head(flights))
        /\ pc' = "for_sim_flight"
        /\ UNCHANGED <<flights, result>>

\* the head of the loop over simulated_flights
ForSimFlightFloat ==
    /\ pc = "for_sim_flight"
    /\ IF frame.f < Len(call.simulated_flights)
       THEN /\ frame' = EnterSimFlightFloat(frame, call.simulated_flights)
            /\ pc' = "for_segments"
            /\ UNCHANGED result
       ELSE /\ result' = [raised |-> FALSE,
                          is_clear |-> IsClear(frame.all_conflicts),
                          all_conflicts |-> frame.all_conflicts]
            /\ pc' = "done"
            /\ UNCHANGED frame
    /\ UNCHANGED <<flights, call>>

\* segment_conflict on a segment of the first mission and one of the second
SegmentConflictFloat ==
    \E safety_buffer \in SafetyBuffers, include_z \in BOOLEAN,
       time_samples \in TimeSampleChoices :
        /\ Constructing
        /\ Len(flights) = 2
        /\ \E p \in 1..(Len(flights[1].waypoints) - 1),
              s \in 1..(Len(flights[2].waypoints) - 1) :
               LET seg1 == build_segments_float(flights[1])[p]
                   seg2 == build_segments_float(flights[2])[s]
                   conflict == segment_conflict(seg1, seg2, safety_buffer,
                                                include_z, time_samples)
               IN  /\ call' = [op |-> "segment_conflict", seg1 |-> seg1,
                               seg2 |-> seg2, safety_buffer |-> safety_buffer,
                               include_z |-> include_z,
                               time_samples |-> time_samples]
                   /\ result' = [raised |-> conflict = Raised,
                                 value |-> conflict]
        /\ pc' = "done"
        /\ UNCHANGED <<flights, frame>>

NextFloat ==
    \/ NewFloatMission
    \/ ComputeSegmentTimesFloat
    \/ BuildSegmentsFloat
    \/ CheckMissionFloat
    \/ ForSimFlightFloat
    \/ ForSegments
    \/ SegmentConflictFloat

SpecFloat == Init /\ [][NextFloat]_vars



(***************************************************************************)
(* The time-window functions of the detector, called on their own.  A      *)
(* window is an interval [start, end] with start <= end, as the time span  *)
(* of a segment is.                                                        *)
(***************************************************************************)
\* the latest instant a window starts or ends at
MaxInstant == 3

Windows == { w \in (0..MaxInstant) \X (0..MaxInstant) : w[1] <= w[2] }

\* time_windows_overlap(t1_start, t1_end, t2_start, t2_end)
TimeWindowsOverlap ==
    \E w1 \in Windows, w2 \in Windows :
        /\ Constructing
        /\ flights = <<>>
        /\ call' = [op |-> "time_windows_overlap",
                    t1_start |-> R(w1[1]), t1_end |-> R(w1[2]),
                    t2_start |-> R(w2[1]), t2_end |-> R(w2[2])]
        /\ result' = [raised |-> FALSE,
                      value |-> time_windows_overlap(R(w1[1]), R(w1[2]),
                                                     R(w2[1]), R(w2[2]))]
        /\ pc' = "done"
        /\ UNCHANGED <<flights, frame>>

\* compute_overlap_window(t1_start, t1_end, t2_start, t2_end)
ComputeOverlapWindow ==
    \E w1 \in Windows, w2 \in Windows :
        /\ Constructing
        /\ flights = <<>>
        /\ call' = [op |-> "compute_overlap_window",
                    t1_start |-> R(w1[1]), t1_end |-> R(w1[2]),
                    t2_start |-> R(w2[1]), t2_end |-> R(w2[2])]
        /\ result' = [raised |-> FALSE,
                      value |-> compute_overlap_window(R(w1[1]), R(w1[2]),
                                                       R(w2[1]), R(w2[2]))]
        /\ pc' = "done"
        /\ UNCHANGED <<flights, frame>>

NextWindow == TimeWindowsOverlap \/ ComputeOverlapWindow

SpecWindow == Init /\ [][NextWindow]_vars

(***************************************************************************)
(* detector_enhanced.py: the detector with a configurable sample count,    *)
(* and its backward-compatible check_mission.  check_mission_high_accuracy *)
(* is given twice: as the value it returns, its loops folded over the      *)
(* other missions in order and over the segment pairs of each in           *)
(* primary-segment-major order, and as the steps of its loops.             *)
(***************************************************************************)
\* include_z is not handed on to position_at_time
segment_conflict_high_accuracy_2d(seg1, seg2, safety_buffer, include_z, time_samples) ==
    segment_conflict(seg1, seg2, safety_buffer, FALSE, time_samples)

\* segment_conflict_high_accuracy(seg1, seg2, safety_buffer, include_z,
\* time_samples)
segment_conflict_high_accuracy(seg1, seg2, safety_buffer, include_z, time_samples) ==
    LET overlap == compute_overlap_window(seg1.t_start, seg1.t_end,
                                          seg2.t_start, seg2.t_end)
    IN  IF overlap = None THEN None
        ELSE LET time_points == linspace(overlap[1], overlap[2], time_samples)
                 tr == Track(seg1, seg2, time_points, time_samples, include_z)
             IN  IF tr.raised THEN Raised
                 ELSE IF BelowBuffer(tr.min_distance_sq, safety_buffer)
                 THEN Conflict(seg1.flight_id, seg2.flight_id,
                               tr.conflict_location, tr.conflict_time,
                               tr.min_distance_sq, safety_buffer)
                 ELSE None

\* for p_seg in primary_segments: for s_seg in sim_segments: what
\* segment_conflict_high_accuracy returns for each pair, in loop order
HighAccuracyPairs(primary_segments, sim_segments, safety_buffer, include_z, time_samples) ==
    LET S == Len(sim_segments)
    IN  [k \in 1..(Len(primary_segments) * S) |->
            segment_conflict_high_accuracy(
                primary_segments[((k - 1) \div S) + 1],
                sim_segments[((k - 1) % S) + 1],
                safety_buffer, include_z, time_samples)]

\* for sim_flight in simulated_flights: the returns for the first f other
\* missions, in loop order
RECURSIVE HighAccuracyReturns(_, _, _, _, _, _)
HighAccuracyReturns(primary_segments, simulated_flights, f, safety_buffer, include_z, time_samples) ==
    IF f = 0 THEN <<>>
    ELSE HighAccuracyReturns(primary_segments, simulated_flights, f - 1,
                             safety_buffer, include_z, time_samples)
         \o HighAccuracyPairs(primary_segments,
                              build_segments(simulated_flights[f]),
                              safety_buffer, include_z, time_samples)

\* check_mission_high_accuracy(primary, simulated_flights, safety_buffer,
\* include_z, time_samples): (is_clear, all_conflicts), or the exception of
\* a pair
check_mission_high_accuracy(primary, simulated_flights, safety_buffer, include_z, time_samples) ==
    LET returns == HighAccuracyReturns(build_segments(primary),
                                       simulated_flights,
                                       Len(simulated_flights), safety_buffer,
                                       include_z, time_samples)
        all_conflicts == SelectSeq(returns, LAMBDA c : c # None)
    IN  IF \E k \in DOMAIN returns : returns[k] = Raised
        THEN [raised |-> TRUE]
        ELSE [raised |-> FALSE, is_clear |-> Len(all_conflicts) = 0,
              all_conflicts |-> all_conflicts]

\* the sample count the backward-compatible check_mission passes
EnhancedTimeSamples == 20

\* two legs: along x to the middle of PathEast, then a climb
PathDogleg == <<Waypoint(0, 0, 0), Waypoint(2, 0, 0), Waypoint(2, 0, 4)>>

EnhancedMissionArgs ==
    { <<"A", PathEast, 0, 4, 5>>,
      <<"B", PathNorthHigh, 0, 4, 5>>,
      <<"D", PathDogleg, 0, 4, 5>> }

NewEnhancedMission ==
    \E a \in EnhancedMissionArgs : NewFlight(a[1], a[2], a[3], a[4], a[5])

\* detector_enhanced.check_mission(flights[1], flights[2..], safety_buffer,
\* include_z): the call of check_mission_high_accuracy it returns
EnhancedCheckMission ==
    \E safety_buffer \in SafetyBuffers, include_z \in BOOLEAN :
        /\ Constructing
        /\ Len(flights) >= 1
        /\ call' = [op |-> "detector_enhanced.check_mission",
                    primary |-> Head(flights),
                    simulated_flights |-> Tail(flights),
                    safety_buffer |-> safety_buffer, include_z |-> include_z,
                    time_samples |-> EnhancedTimeSamples]
        /\ frame' = EnterCheck(Head(flights))
        /\ pc' = "enhanced_for_sim_flight"
        /\ UNCHANGED <<flights, result>>

\* check_mission_high_accuracy: the head of the loop over simulated_flights
EnhancedForSimFlight ==
    /\ pc = "enhanced_for_sim_flight"
    /\ IF frame.f < Len(call.simulated_flights)
       THEN /\ frame' = EnterSimFlight(frame, call.simulated_flights)
            /\ pc' = "enhanced_for_segments"
            /\ UNCHANGED result
       ELSE /\ result' = [raised |-> FALSE,
                          is_clear |-> Len(frame.all_conflicts) = 0,
                          all_conflicts |-> frame.all_conflicts]
            /\ pc' = "done"
            /\ UNCHANGED frame
    /\ UNCHANGED <<flights, call>>

\* check_mission_high_accuracy: the body of the segment loops on the pair
\* (p, s), and the step to the next pair
EnhancedForSegments ==
    /\ pc = "enhanced_for_segments"
    /\ LET conflict == segment_conflict_high_accuracy(
                           frame.primary_segments[frame.p],
                           frame.sim_segments[frame.s],
                           call.safety_buffer, call.include_z,
                           call.time_samples)
           called == [frame EXCEPT !.calls =
                         Append(@, [f |-> frame.f, p |-> frame.p, s |-> frame.s,
                                    conflict |-> conflict])]
       IN  IF conflict = Raised
           THEN /\ frame' = called
                /\ result' = [raised |-> TRUE]
                /\ pc' = "done"
           ELSE /\ frame' = NextPair(AppendConflict(called, conflict))
                /\ pc' = IF frame'.p > Len(frame.primary_segments)
                         THEN "enhanced_for_sim_flight"
                         ELSE "enhanced_for_segments"
                /\ UNCHANGED result
    /\ UNCHANGED <<flights, call>>

NextEnhanced ==
    \/ NewEnhancedMission
    \/ CheckMission
    \/ ForSimFlight
    \/ ForSegments
    \/ EnhancedCheckMission
    \/ EnhancedForSimFlight
    \/ EnhancedForSegments

SpecEnhanced == Init /\ [][NextEnhanced]_vars

(***************************************************************************)
(* viz.py: the severity label of a Conflict.  The plots call               *)
(* get_conflict_severity(conflict.min_distance, conflict.safety_buffer) on *)
(* the Conflicts of a list check_mission has returned, so the inputs are   *)
(* the fields of a Conflict: 0 <= min_distance < safety_buffer.            *)
(***************************************************************************)
\* violation_percent = (violation / safety_buffer) * 100
ViolationPercent(min_distance, safety_buffer) ==
    RMul(RDiv(RSub(safety_buffer, min_distance), safety_buffer), R(100))

\* <= in place of < at the three thresholds
get_conflict_severity_inclusive(min_distance, safety_buffer) ==
    LET violation_percent == ViolationPercent(min_distance, safety_buffer)
    IN  IF RLe(violation_percent, R(20)) THEN "low"
        ELSE IF RLe(violation_percent, R(50)) THEN "medium"
        ELSE IF RLe(violation_percent, R(80)) THEN "high"
        ELSE "critical"

\* get_conflict_severity(min_distance, safety_buffer)
get_conflict_severity(min_distance, safety_buffer) ==
    LET violation_percent == ViolationPercent(min_distance, safety_buffer)
    IN  IF RLt(violation_percent, R(20)) THEN "low"
        ELSE IF RLt(violation_percent, R(50)) THEN "medium"
        ELSE IF RLt(violation_percent, R(80)) THEN "high"
        ELSE "critical"

\* the largest safety buffer of a labelled Conflict
MaxSeverityBuffer == 10

\* the fields of the Conflicts that are labelled: distances in halves
\* below the buffer
SeverityInputs ==
    { in \in (0..(2 * MaxSeverityBuffer)) \X (1..MaxSeverityBuffer) :
          in[1] < 2 * in[2] }

\* severity = get_conflict_severity(conflict.min_distance,
\* conflict.safety_buffer)
GetConflictSeverity ==
    \E in \in SeverityInputs :
        /\ Constructing
        /\ flights = <<>>
        /\ call' = [op |-> "get_conflict_severity",
                    min_distance |-> RDiv(R(in[1]), R(2)),
                    safety_buffer |-> R(in[2])]
        /\ result' = [raised |-> FALSE,
                      value |-> get_conflict_severity(RDiv(R(in[1]), R(2)),
                                                      R(in[2]))]
        /\ pc' = "done"
        /\ UNCHANGED <<flights, frame>>

NextSeverity == GetConflictSeverity

SpecSeverity == Init /\ [][NextSeverity]_vars

(***************************************************************************)
(* interactive_cli.py: the prompts that collect a mission.  What the user  *)
(* types is a token; float() turns it into a number, into nan, or raises   *)
(* ValueError.  Comparisons with nan are all false, as they are in Python. *)
(* One action is one pass through the body of a prompt loop.  The variant  *)
(* "interactive_cli" is get_waypoints_interactive and                      *)
(* create_flight_interactive, the variant "script" is                      *)
(* get_user_input_waypoints and get_user_input_flight, which differ in the *)
(* test on the speed.                                                      *)
(***************************************************************************)
NaN == <<"nan">>

Num(n) == <<"num", n>>

\* float(token)
PyFloat(token) ==
    CASE token \in {"0", "0.0"} -> Num(0)
      [] token = "3" -> Num(3)
      [] token = "-2" -> Num(-2)
      [] token = "5.0" -> Num(5)
      [] token = "nan" -> NaN
      [] OTHER -> ValueError

\* a < b and a <= b on floats
FloatLt(a, b) == a[1] = "num" /\ b[1] = "num" /\ a[2] < b[2]

FloatLe(a, b) == a[1] = "num" /\ b[1] = "num" /\ a[2] <= b[2]

\* Flight.__post_init__ on floats: the message of the first check that
\* fails, or "ok"
FlightErrorFloat(id, waypoints, t_start, t_end, speed) ==
    IF Len(waypoints) < 2 THEN "must have at least 2 waypoints"
    ELSE IF FloatLe(t_end, t_start) THEN "t_start must be < t_end"
    ELSE IF FloatLe(speed, Num(0)) THEN "speed must be positive"
    ELSE "ok"

\* the most waypoints a user enters
MaxPromptWaypoints == 3

CoordTokens == {"0", "3", "abc"}

TimeTokens == {"", "0", "3", "nan", "abc"}

SpeedTokens == {"", "0", "-2", "3", "nan", "abc"}

\* create_flight_interactive(flight_id, is_3d): entry, up to the first
\* waypoint prompt
CreateFlightInteractive ==
    \E variant \in {"interactive_cli", "script"}, is3d \in BOOLEAN :
        /\ Constructing
        /\ flights = <<>>
        /\ call.op = "none"
        /\ call' = [op |-> "create_flight_interactive", variant |-> variant,
                    flight_id |-> "P", is_3d |-> is3d]
        /\ frame' = [waypoints |-> <<>>, waypoint_num |-> 1,
                     t_start |-> None, t_end |-> None]
        /\ pc' = "waypoint_prompt"
        /\ UNCHANGED <<flights, result>>

\* one pass through the loop of get_waypoints_interactive: the coordinates
\* are read and parsed, the waypoint appended, and from the second waypoint
\* on the user is asked whether to add another
WaypointPrompt ==
    \E x \in CoordTokens, y \in CoordTokens, z \in CoordTokens,
       more \in {"y", "n"} :
        /\ pc = "waypoint_prompt"
        /\ more = "y" => frame.waypoint_num < MaxPromptWaypoints
        /\ LET fz == IF call.is_3d THEN PyFloat(z) ELSE Num(0)
           IN  IF ValueError \in {PyFloat(x), PyFloat(y), fz}
               THEN UNCHANGED <<frame, pc>>
               ELSE IF frame.waypoint_num >= 2 /\ more # "y"
               THEN /\ frame' = [frame EXCEPT !.waypoints =
                                   Append(@, Waypoint(PyFloat(x), PyFloat(y), fz))]
                    /\ pc' = "timing_prompt"
               ELSE /\ frame' = [frame EXCEPT !.waypoints =
                                   Append(@, Waypoint(PyFloat(x), PyFloat(y), fz)),
                                              !.waypoint_num = @ + 1]
                    /\ pc' = pc
        /\ UNCHANGED <<flights, call, result>>

\* except KeyboardInterrupt: sys.exit(0)
WaypointCancel ==
    /\ pc = "waypoint_prompt"
    /\ result' = [raised |-> FALSE, exit |-> 0]
    /\ pc' = "exited"
    /\ UNCHANGED <<flights, call, frame>>

\* one pass through the timing loop: start time (default 0) and end time
TimingPrompt ==
    \E s \in TimeTokens, e \in TimeTokens :
        /\ pc = "timing_prompt"
        /\ LET t_start == PyFloat(IF s = "" THEN "0" ELSE s)
               t_end == PyFloat(e)
           IN  IF t_start = ValueError \/ t_end = ValueError
               THEN UNCHANGED <<frame, pc>>
               ELSE IF FloatLe(t_end, t_start)
               THEN UNCHANGED <<frame, pc>>
               ELSE /\ frame' = [frame EXCEPT !.t_start = t_start,
                                              !.t_end = t_end]
                    /\ pc' = "speed_prompt"
        /\ UNCHANGED <<flights, call, result>>

\* one pass through the speed loop (default 5.0) and, once a speed is
\* accepted, return Flight(id=flight_id, waypoints=waypoints,
\* t_start=t_start, t_end=t_end, speed=speed)
SpeedPrompt ==
    \E token \in SpeedTokens :
        /\ pc = "speed_prompt"
        /\ LET speed == PyFloat(IF token = "" THEN "5.0" ELSE token)
               accepted == IF call.variant = "interactive_cli"
                           THEN FloatLt(Num(0), speed)
                           ELSE ~FloatLe(speed, Num(0))
               err == FlightErrorFloat(call.flight_id, frame.waypoints,
                                       frame.t_start, frame.t_end, speed)
           IN  IF speed = ValueError \/ ~accepted
               THEN UNCHANGED <<flights, call, result, pc>>
               ELSE /\ call' = [op |-> "Flight", id |-> call.flight_id,
                                waypoints |-> frame.waypoints,
                                t_start |-> frame.t_start,
                                t_end |-> frame.t_end, speed |-> speed,
                                variant |-> call.variant]
                    /\ IF err # "ok"
                       THEN /\ result' = [raised |-> TRUE, message |-> err]
                            /\ UNCHANGED flights
                       ELSE /\ result' = [raised |-> FALSE,
                                          value |-> Flight(call.flight_id,
                                                           frame.waypoints,
                                                           frame.t_start,
                                                           frame.t_end, speed)]
                            /\ flights' = Append(flights, result'.value)
                    /\ pc' = "done"
        /\ UNCHANGED frame

NextInput ==
    \/ CreateFlightInteractive
    \/ WaypointPrompt
    \/ WaypointCancel
    \/ TimingPrompt
    \/ SpeedPrompt

SpecInput == Init /\ [][NextInput]_vars

(***************************************************************************)
(* detector.py: the static distance between two segments.  Distances are   *)
(* carried as their squares; the least of the four distances is the one    *)
(* with the least square.                                                  *)
(***************************************************************************)
\* np.dot(u, v)
RECURSIVE DotTo(_, _, _)
DotTo(u, v, k) ==
    IF k = 0 THEN R(0) ELSE RAdd(DotTo(u, v, k - 1), RMul(u[k], v[k]))

Dot(u, v) == DotTo(u, v, Len(u))

\* np.clip(t, 0, 1)
Clip01(t) == RMin(RMax(t, R(0)), R(1))

\* point_to_segment_distance(point, seg_start, seg_end), squared
point_to_segment_distance(point, seg_start, seg_end) ==
    LET segment_vec == VSub(seg_end, seg_start)
        segment_length_sq == Dot(segment_vec, segment_vec)
    IN  IF segment_length_sq = R(0)
        THEN Norm2(VSub(point, seg_start))
        ELSE LET t == Clip01(RDiv(Dot(VSub(point, seg_start), segment_vec),
                                  segment_length_sq))
                 closest == VAdd(seg_start, VScale(t, segment_vec))
             IN  Norm2(VSub(point, closest))

\* segment_to_segment_distance(seg1, seg2, include_z), squared
segment_to_segment_distance(seg1, seg2, include_z) ==
    LET p1_start == to_array(seg1.start, include_z)
        p1_end == to_array(seg1.end, include_z)
        p2_start == to_array(seg2.start, include_z)
        p2_end == to_array(seg2.end, include_z)
    IN  RMin(RMin(point_to_segment_distance(p1_start, p2_start, p2_end),
                  point_to_segment_distance(p1_end, p2_start, p2_end)),
             RMin(point_to_segment_distance(p2_start, p1_start, p1_end),
                  point_to_segment_distance(p2_end, p1_start, p1_end)))

\* segment_to_segment_distance(seg1, seg2, include_z) on a segment of the
\* first mission and a segment of the second
SegmentToSegmentDistance ==
    \E include_z \in BOOLEAN :
        /\ Constructing
        /\ Len(flights) = 2
        /\ \E p \in 1..(Len(flights[1].waypoints) - 1),
              s \in 1..(Len(flights[2].waypoints) - 1) :
               LET seg1 == build_segments(flights[1])[p]
                   seg2 == build_segments(flights[2])[s]
               IN  /\ call' = [op |-> "segment_to_segment_distance",
                               seg1 |-> seg1, seg2 |-> seg2,
                               include_z |-> include_z]
                   /\ result' = [raised |-> FALSE,
                                 value |-> segment_to_segment_distance(
                                               seg1, seg2, include_z)]
        /\ pc' = "done"
        /\ UNCHANGED <<flights, frame>>

NextStatic == NewCrossMission \/ SegmentToSegmentDistance

SpecStatic == Init /\ [][NextStatic]_vars

(***************************************************************************)
(* check_mission with any safety buffer: the caller may pass a buffer that *)
(* is zero or negative, which nothing rejects.                             *)
(***************************************************************************)
AnyBuffers == {-1, 0, 3}

\* detector.check_mission(flights[1], flights[2..], safety_buffer,
\* include_z): entry
CheckMissionAnyBuffer ==
    \E safety_buffer \in AnyBuffers, include_z \in BOOLEAN :
        /\ Constructing
        /\ Len(flights) >= 1
        /\ call' = [op |-> "check_mission", primary |-> Head(flights),
                    simulated_flights |-> Tail(flights),
                    safety_buffer |-> safety_buffer, include_z |-> include_z,
                    time_samples |-> DefaultTimeSamples]
        /\ frame' = EnterCheck(Head(flights))
        /\ pc' = "for_sim_flight"
        /\ UNCHANGED <<flights, result>>

NextBuffer ==
    \/ NewMission
    \/ CheckMissionAnyBuffer
    \/ ForSimFlight
    \/ ForSegments

SpecBuffer == Init /\ [][NextBuffer]_vars

(***************************************************************************)
(* The two command-line entry points: main of the classic CLI (cli.py) and *)
(* main of interactive_cli.py.  The missions a scenario, a JSON file or a  *)
(* round of prompts yields come from a small catalogue; a round of prompts *)
(* can also be interrupted with Ctrl+C at a waypoint prompt.  The check    *)
(* itself runs as the steps of its loops; the process then exits.          *)
(***************************************************************************)
MissionOf(a) == Flight(a[1], a[2], a[3], a[4], a[5])

\* get_all_scenarios()[name], or what load_flights_from_json returns:
\* (primary, simulated)
CliMissions(name) ==
    CASE name = "spatial_conflict" ->
             <<MissionOf(<<"L", PathL, 0, 8, 5>>),
               <<MissionOf(<<"HA", PathHoverA, 0, 8, 5>>)>>>>
      [] name = "temporal_safe" ->
             <<MissionOf(<<"L", PathL, 0, 8, 5>>),
               <<MissionOf(<<"L9", PathL, 9, 12, 5>>)>>>>
      [] name = "mission.json" ->
             <<MissionOf(<<"L", PathL, 0, 8, 5>>),
               <<MissionOf(<<"L9", PathL, 9, 12, 5>>),
                 MissionOf(<<"HB", PathHoverB, 0, 12, 5>>)>>>>

ScenarioNames == {"spatial_conflict", "temporal_safe"}

\* a file that loads and a file that does not
InputFiles == {"mission.json", "missing.json"}

\* the missions typed at the prompts
SessionMissionArgs ==
    { <<"L", PathL, 0, 8, 5>>,
      <<"HA", PathHoverA, 0, 8, 5>>,
      <<"L9", PathL, 9, 12, 5>> }

CliBuffers == {3}

\* the accuracy typed at the prompt: of the three levels only the fastest
\* is exercised
AccuracyChoices == {"1"}

\* samples = {'1': 20, '2': 50, '3': 100}[acc]
AccuracySamples(acc) ==
    CASE acc = "1" -> 20 [] acc = "2" -> 50 [] acc = "3" -> 100

\* the process has ended without a check having been run
ExitedUnchecked(status) == [raised |-> FALSE, exit |-> status, checked |-> FALSE]

\* main of the classic CLI, from the parsed arguments up to the call of
\* check_mission, or to sys.exit(1)
ClassicMain ==
    \E scenario \in ScenarioNames \cup {"none"},
       input \in InputFiles \cup {"none"},
       buffer \in CliBuffers, use_3d \in BOOLEAN :
        /\ Constructing
        /\ flights = <<>>
        /\ call.op = "none"
        /\ LET source == IF scenario # "none" THEN scenario ELSE input
               loads == scenario # "none" \/ input = "mission.json"
           IN  IF loads
               THEN /\ flights' = <<CliMissions(source)[1]>>
                                      \o CliMissions(source)[2]
                    /\ call' = [op |-> "check_mission", entry |-> "cli",
                                primary |-> CliMissions(source)[1],
                                simulated_flights |-> CliMissions(source)[2],
                                safety_buffer |-> buffer,
                                include_z |-> use_3d,
                                time_samples |-> DefaultTimeSamples]
                    /\ frame' = EnterCheck(CliMissions(source)[1])
                    /\ pc' = "for_sim_flight"
                    /\ UNCHANGED result
               ELSE /\ call' = [op |-> "main", entry |-> "cli",
                                scenario |-> scenario, input |-> input]
                    /\ result' = ExitedUnchecked(1)
                    /\ pc' = "exited"
                    /\ UNCHANGED <<flights, frame>>

\* main of interactive_cli.py: the mode, from --mode or from the menu
InteractiveMain ==
    \E mode \in {"interactive", "quick"} :
        /\ Constructing
        /\ flights = <<>>
        /\ call.op = "none"
        /\ call' = [op |-> "main", entry |-> "interactive_cli", mode |-> mode]
        /\ pc' = IF mode = "interactive" THEN "session_primary"
                 ELSE "quick_scenario"
        /\ UNCHANGED <<flights, result, frame>>

\* interactive_session: 2D or 3D, the primary mission from
\* create_flight_interactive, and the number of simulated drones; Ctrl+C at
\* a waypoint prompt ends the process with sys.exit(0)
SessionPrimary ==
    \E is3d \in BOOLEAN, a \in SessionMissionArgs, interrupted \in BOOLEAN,
       num \in 1..MaxOthers :
        /\ pc = "session_primary"
        /\ IF interrupted
           THEN /\ result' = ExitedUnchecked(0)
                /\ pc' = "exited"
                /\ UNCHANGED <<flights, frame>>
           ELSE /\ flights' = <<MissionOf(a)>>
                /\ frame' = [is_3d |-> is3d, num |-> num]
                /\ pc' = "session_simulated"
                /\ UNCHANGED result
        /\ UNCHANGED call

\* interactive_session: one more simulated mission from
\* create_flight_interactive, or Ctrl+C at one of its waypoint prompts
SessionSimulated ==
    \E a \in SessionMissionArgs, interrupted \in BOOLEAN :
        /\ pc = "session_simulated"
        /\ IF interrupted
           THEN /\ result' = ExitedUnchecked(0)
                /\ pc' = "exited"
                /\ UNCHANGED flights
           ELSE /\ flights' = Append(flights, MissionOf(a))
                /\ pc' = IF Len(flights') = 1 + frame.num
                         THEN "session_config" ELSE pc
                /\ UNCHANGED result
        /\ UNCHANGED <<call, frame>>

\* interactive_session: the buffer and the accuracy, up to the call of
\* check_mission_high_accuracy
SessionCheck ==
    \E buffer \in CliBuffers, acc \in AccuracyChoices :
        /\ pc = "session_config"
        /\ call' = [op |-> "check_mission_high_accuracy",
                    entry |-> "interactive_cli",
                    primary |-> Head(flights),
                    simulated_flights |-> Tail(flights),
                    safety_buffer |-> buffer, include_z |-> frame.is_3d,
                    time_samples |-> AccuracySamples(acc)]
        /\ frame' = EnterCheck(Head(flights))
        /\ pc' = "for_sim_flight"
        /\ UNCHANGED <<flights, result>>

\* quick_scenario: the scenario, the buffer and the accuracy, up to the call
\* of check_mission_high_accuracy
QuickScenario ==
    \E name \in ScenarioNames, buffer \in CliBuffers, acc \in AccuracyChoices :
        /\ pc = "quick_scenario"
        /\ flights' = <<CliMissions(name)[1]>> \o CliMissions(name)[2]
        /\ call' = [op |-> "check_mission_high_accuracy",
                    entry |-> "interactive_cli",
                    primary |-> CliMissions(name)[1],
                    simulated_flights |-> CliMissions(name)[2],
                    safety_buffer |-> buffer,
                    include_z |-> is_3d(CliMissions(name)[1]),
                    time_samples |-> AccuracySamples(acc)]
        /\ frame' = EnterCheck(CliMissions(name)[1])
        /\ pc' = "for_sim_flight"
        /\ UNCHANGED result

\* sys.exit(0 if is_clear else 1) once the check has returned; an exception
\* that nothing catches ends the process with status 1
MainExit ==
    /\ pc = "done"
    /\ result' = IF result.raised
                 THEN [raised |-> TRUE, exit |-> 1, checked |-> TRUE]
                 ELSE [raised |-> FALSE,
                       exit |-> IF result.is_clear THEN 0 ELSE 1,
                       checked |-> TRUE, is_clear |-> result.is_clear,
                       all_conflicts |-> result.all_conflicts]
    /\ pc' = "exited"
    /\ UNCHANGED <<flights, call, frame>>

NextCli ==
    \/ ClassicMain
    \/ InteractiveMain
    \/ SessionPrimary
    \/ SessionSimulated
    \/ SessionCheck
    \/ QuickScenario
    \/ ForSimFlight
    \/ ForSegments
    \/ MainExit

SpecCli == Init /\ [][NextCli]_vars

(***************************************************************************)
(* Properties of segment_conflict and check_mission (Spec).                *)
(***************************************************************************)
\* a call of check_mission or check_mission_high_accuracy has returned
Checked ==
    /\ call.op \in {"check_mission", "check_mission_high_accuracy"}
    /\ pc = "done"
    /\ ~result.raised

\* C1: the verdict returned by check_mission and check_mission_high_accuracy
\* is clear if and only if the returned conflict list is empty.
C1_ClearIffNoConflict ==
    Checked => (result.is_clear <=> result.all_conflicts = <<>>)

\* a check of a primary against other missions that found a conflict
C1_Witness ==
    /\ Checked
    /\ call.simulated_flights # <<>>
    /\ ~result.is_clear
    /\ Len(result.all_conflicts) = 1

\* the squared distances of the two segments at the time_samples timestamps
\* evenly spaced over the intersection of their time spans
SampledDistances(seg1, seg2, include_z, time_samples) ==
    LET time_points == linspace(RMax(seg1.t_start, seg2.t_start),
                                RMin(seg1.t_end, seg2.t_end), time_samples)
    IN  { Norm2(VSub(position_at_time(seg1, time_points[i], include_z),
                     position_at_time(seg2, time_points[i], include_z))) :
          i \in 1..time_samples }

\* the time spans of two segments share at least one instant
OverlappingSpans(seg1, seg2) ==
    RLe(RMax(seg1.t_start, seg2.t_start), RMin(seg1.t_end, seg2.t_end))

\* one time window ends strictly before the other starts
DisjointWindows(t1_start, t1_end, t2_start, t2_end) ==
    RLt(t1_end, t2_start) \/ RLt(t2_end, t1_start)

IsConflict(v) == v # None /\ v # Raised

\* C2: for a pair of segments with overlapping time spans, segment_conflict
\* returns a Conflict if and only if some sampled distance, hence the
\* minimum of them, is strictly below the safety buffer.
C2_ConflictIffBelowBuffer ==
    (call.op = "segment_conflict" /\ OverlappingSpans(call.seg1, call.seg2)) =>
        (IsConflict(result.value) <=>
            \E d \in SampledDistances(call.seg1, call.seg2, call.include_z,
                                      call.time_samples) :
                /\ call.safety_buffer > 0
                /\ RLt(d, R(call.safety_buffer * call.safety_buffer)))

\* the minimum sampled distance is exactly the buffer and nothing is returned
C2_Witness ==
    /\ call.op = "segment_conflict"
    /\ OverlappingSpans(call.seg1, call.seg2)
    /\ call.time_samples = DefaultTimeSamples
    /\ LET ds == SampledDistances(call.seg1, call.seg2, call.include_z,
                                  call.time_samples)
           b2 == R(call.safety_buffer * call.safety_buffer)
       IN  b2 \in ds /\ \A d \in ds : ~RLt(d, b2)
    /\ result.value = None

RECURSIVE ReturnedConflicts(_, _)
ReturnedConflicts(calls, k) ==
    IF k = 0 THEN <<>>
    ELSE IF calls[k].conflict # None
         THEN Append(ReturnedConflicts(calls, k - 1), calls[k].conflict)
         ELSE ReturnedConflicts(calls, k - 1)

\* C4: check_mission hands every (primary segment, other-mission segment)
\* pair of every other mission to the pairwise detector exactly once and no
\* other pair; its conflict list holds exactly the Conflicts the detector
\* returned, one entry per such pair; the primary's segments are built once.
C4_EveryPairOnce ==
    Checked =>
        LET sims == call.simulated_flights
            P == Len(call.primary.waypoints) - 1
            S(f) == Len(sims[f].waypoints) - 1
        IN  /\ \A f \in 1..Len(sims) : \A p \in 1..P : \A s \in 1..S(f) :
                   Cardinality({ i \in 1..Len(frame.calls) :
                                   /\ frame.calls[i].f = f
                                   /\ frame.calls[i].p = p
                                   /\ frame.calls[i].s = s }) = 1
            /\ \A i \in 1..Len(frame.calls) :
                   /\ frame.calls[i].f \in 1..Len(sims)
                   /\ frame.calls[i].p \in 1..P
                   /\ frame.calls[i].s \in 1..S(frame.calls[i].f)
            /\ result.all_conflicts =
                   ReturnedConflicts(frame.calls, Len(frame.calls))
            /\ frame.builds = [i \in 1..(Len(sims) + 1) |-> i - 1]

\* a check over two other missions, with pairs that conflict and pairs that
\* do not
C4_Witness ==
    /\ Checked
    /\ Len(call.simulated_flights) = 2
    /\ Len(frame.calls) >= 6
    /\ Len(result.all_conflicts) >= 2
    /\ Len(result.all_conflicts) < Len(frame.calls)

\* <<a1, a2, a3>> comes strictly before <<b1, b2, b3>> in lexicographic order
LexLess(a, b) ==
    \/ a[1] < b[1]
    \/ a[1] = b[1] /\ a[2] < b[2]
    \/ a[1] = b[1] /\ a[2] = b[2] /\ a[3] < b[3]

C6_SegmentsCoverWindow ==
    call.op = "build_segments" =>
        LET segs == result.value
        IN  /\ segs[1].t_start = R(call.flight.t_start)
            /\ segs[Len(segs)].t_end = R(call.flight.t_end)
            /\ \A i \in 1..(Len(segs) - 1) : segs[i].t_end = segs[i + 1].t_start

\* the segments of a two-leg mission that starts after time 0 and whose
\* inner boundary is no whole number
C6_Witness ==
    /\ call.op = "build_segments"
    /\ call.flight.t_start > 0
    /\ Len(result.value) = 2
    /\ result.value[1].t_end[2] > 1

\* C7: for a Flight of n waypoints build_segments returns n - 1 segments, the
\* i-th from waypoint i to waypoint i + 1 and carrying the flight's id, and
\* compute_segment_times returns n timestamps.
C7_SegmentCount ==
    /\ call.op = "build_segments" =>
           /\ Len(result.value) = Len(call.flight.waypoints) - 1
           /\ \A i \in 1..Len(result.value) :
                  /\ result.value[i].start = call.flight.waypoints[i]
                  /\ result.value[i].end = call.flight.waypoints[i + 1]
                  /\ result.value[i].flight_id = call.flight.id
    /\ call.op = "compute_segment_times" =>
           Len(result.value) = Len(call.flight.waypoints)

\* the two segments of a three-waypoint mission
C7_Witness ==
    /\ call.op = "build_segments"
    /\ Len(call.flight.waypoints) = 3
    /\ Len(result.value) = 2
    /\ result.value[2].start # result.value[2].end

C9_RangeError ==
    call.op = "position_at_time" =>
        (result.raised <=>
            (RLt(call.t, call.seg.t_start) \/ RLt(call.seg.t_end, call.t)))

\* a timestamp past the end of the segment is refused
C9_Witness ==
    /\ call.op = "position_at_time"
    /\ RLt(call.seg.t_end, call.t)
    /\ result.raised

\* the invariants of a Flight
ValidFlight(fl) ==
    /\ Len(fl.waypoints) >= 2
    /\ fl.t_start < fl.t_end
    /\ fl.speed > 0

C16_StartRegardlessOfTime ==
    (call.op = "position_at_time" /\ call.seg.t_start = call.seg.t_end) =>
        result.value = to_array(call.seg.start, call.include_z)

\* C16, amended: for a zero-duration segment position_at_time returns the
\* segment's start position at the only timestamp in range,
\* t = t_start = t_end, and raises the range error at any other timestamp.
C16_StartAtTheOnlyTime ==
    (call.op = "position_at_time" /\ call.seg.t_start = call.seg.t_end) =>
        /\ call.t = call.seg.t_start =>
               (~result.raised
                /\ result.value = to_array(call.seg.start, call.include_z))
        /\ call.t # call.seg.t_start =>
               (result.raised /\ result.value = ValueError)

\* the position of a zero-duration segment, asked at its instant
C16_Witness ==
    /\ call.op = "position_at_time"
    /\ call.seg.t_start = call.seg.t_end
    /\ call.t = call.seg.t_start
    /\ RLt(R(0), call.t)
    /\ result.value = to_array(call.seg.start, call.include_z)

\* some waypoint of the list has a non-zero altitude
HasAltitude(waypoints) == \E i \in 1..Len(waypoints) : waypoints[i].z # 0

\* the length of the leg from waypoint i to waypoint i + 1, in (x, y) or in
\* (x, y, z)
PathLegLength(waypoints, i, with_z) ==
    LET dx == waypoints[i + 1].x - waypoints[i].x
        dy == waypoints[i + 1].y - waypoints[i].y
        dz == waypoints[i + 1].z - waypoints[i].z
    IN  Sqrt(dx * dx + dy * dy + (IF with_z THEN dz * dz ELSE 0))

\* the length of the first k legs
RECURSIVE PathLength(_, _, _)
PathLength(waypoints, k, with_z) ==
    IF k = 0 THEN 0
    ELSE PathLength(waypoints, k - 1, with_z) + PathLegLength(waypoints, k, with_z)

C19_CoincidentEvenlySpaced ==
    LET wps == call.flight.waypoints
        n == Len(wps)
        step == RDiv(R(call.flight.t_end - call.flight.t_start), R(n - 1))
        coincide == PathLength(wps, n - 1, HasAltitude(wps)) = 0
    IN  /\ (call.op = "compute_segment_times" /\ coincide) =>
               /\ Len(result.value) = n
               /\ \A i \in 1..n :
                      result.value[i] =
                          RAdd(R(call.flight.t_start), RMul(R(i - 1), step))
        /\ (call.op = "build_segments" /\ coincide) =>
               /\ Len(result.value) = n - 1
               /\ \A i \in 1..(n - 1) :
                      RSub(result.value[i].t_end, result.value[i].t_start) = step

\* three waypoints at (5, 5) over [0, 10]: timestamps 0, 5 and 10
C19_Witness ==
    /\ call.op = "compute_segment_times"
    /\ call.flight.waypoints = PathCoincident3
    /\ call.flight.t_start = 0
    /\ call.flight.t_end = 10
    /\ result.value = <<R(0), R(5), R(10)>>

\* coordinate k of a waypoint: x, y, z
Coordinate(wp, k) == IF k = 1 THEN wp.x ELSE IF k = 2 THEN wp.y ELSE wp.z

\* C20: for a segment with t_start < t_end and t in [t_start, t_end],
\* position_at_time returns, coordinate by coordinate,
\* start + ((t - t_start) / (t_end - t_start)) * (end - start), over (x, y)
\* when include_z is false and over (x, y, z) when it is true, whether or
\* not the mission the segment belongs to has altitude.
C20_LinearInterpolation ==
    (call.op = "position_at_time"
     /\ RLt(call.seg.t_start, call.seg.t_end)
     /\ RLe(call.seg.t_start, call.t) /\ RLe(call.t, call.seg.t_end)) =>
        LET alpha == RDiv(RSub(call.t, call.seg.t_start),
                          RSub(call.seg.t_end, call.seg.t_start))
        IN  /\ ~result.raised
            /\ Len(result.value) = IF call.include_z THEN 3 ELSE 2
            /\ \A k \in 1..Len(result.value) :
                   result.value[k] =
                       RAdd(R(Coordinate(call.seg.start, k)),
                            RMul(alpha, R(Coordinate(call.seg.end, k)
                                          - Coordinate(call.seg.start, k))))

\* a position asked in 3D strictly inside a moving segment of a mission that
\* has no altitude
C20_Witness ==
    /\ call.op = "position_at_time"
    /\ RLt(call.seg.t_start, call.t) /\ RLt(call.t, call.seg.t_end)
    /\ call.include_z
    /\ ~HasAltitude(flights[1].waypoints)
    /\ call.seg.start # call.seg.end
    /\ Len(result.value) = 3
    /\ result.value[1] # R(call.seg.start.x)
    /\ result.value[1] # R(call.seg.end.x)

(***************************************************************************)
(* Properties of the detector on crossing missions (SpecCross, Spec).      *)
(***************************************************************************)
\* the square of the minimum distance the sampling loop of segment_conflict
\* finds with time_samples samples
MinSampled(seg1, seg2, include_z, time_samples) ==
    LET overlap == compute_overlap_window(seg1.t_start, seg1.t_end,
                                          seg2.t_start, seg2.t_end)
    IN  Track(seg1, seg2, linspace(overlap[1], overlap[2], time_samples),
              time_samples, include_z).min_distance_sq

\* every timestamp sampled with K1 samples is sampled with K2 samples
NestedSamples(K1, K2) == K1 = 1 \/ (K1 > 1 /\ (K2 - 1) % (K1 - 1) = 0)

AltitudeSeparated(flight1, flight2, safety_buffer) ==
    \/ \A i \in 1..Len(flight1.waypoints), j \in 1..Len(flight2.waypoints) :
           flight2.waypoints[j].z - flight1.waypoints[i].z >= safety_buffer
    \/ \A i \in 1..Len(flight1.waypoints), j \in 1..Len(flight2.waypoints) :
           flight1.waypoints[i].z - flight2.waypoints[j].z >= safety_buffer

\* some segment of flight1 and some segment of flight2 conflict in 2D
ConflictIn2D(flight1, flight2, safety_buffer, time_samples) ==
    \E p \in 1..(Len(flight1.waypoints) - 1), s \in 1..(Len(flight2.waypoints) - 1) :
        IsConflict(segment_conflict(build_segments(flight1)[p],
                                    build_segments(flight2)[s],
                                    safety_buffer, FALSE, time_samples))

\* C13: check_mission in 3D mode reports clear when every other mission
\* flies, for its whole span, at altitudes that differ from the primary's by
\* at least the safety buffer.
C13_AltitudeSeparationClear ==
    (Checked /\ call.include_z
     /\ \A i \in 1..Len(call.simulated_flights) :
            AltitudeSeparated(call.primary, call.simulated_flights[i],
                              call.safety_buffer))
    => (result.is_clear /\ result.all_conflicts = <<>>)

\* a 3D check that is clear by altitude alone: the other mission is exactly
\* the buffer higher and the same two missions conflict in 2D
C13_Witness ==
    /\ Checked
    /\ call.include_z
    /\ Len(call.simulated_flights) = 1
    /\ AltitudeSeparated(call.primary, call.simulated_flights[1],
                         call.safety_buffer)
    /\ call.simulated_flights[1].waypoints[1].z = call.safety_buffer
    /\ ConflictIn2D(call.primary, call.simulated_flights[1],
                    call.safety_buffer, call.time_samples)
    /\ result.is_clear

\* the buffers a check is repeated with: up to BufferSteps wider
BufferSteps == 3

WiderBuffers(safety_buffer) == (safety_buffer + 1)..(safety_buffer + BufferSteps)

\* what the pairwise detector returns for the i-th pair a check evaluated,
\* were the check made with safety_buffer
PairVerdict(i, safety_buffer) ==
    segment_conflict(
        frame.primary_segments[frame.calls[i].p],
        build_segments(call.simulated_flights[frame.calls[i].f])[frame.calls[i].s],
        safety_buffer, call.include_z, call.time_samples)

\* C14: with the missions, the 2D/3D flag and the sample count fixed, every
\* segment pair reported as a Conflict with buffer b is reported with any
\* buffer b' > b, by segment_conflict and by check_mission; hence a check
\* that is clear with b' is clear with b.
C14_WiderBufferKeepsConflicts ==
    /\ (call.op = "segment_conflict" /\ IsConflict(result.value)) =>
           \A b \in WiderBuffers(call.safety_buffer) :
               IsConflict(segment_conflict(call.seg1, call.seg2, b,
                                           call.include_z, call.time_samples))
    /\ Checked =>
           \A i \in 1..Len(frame.calls) :
               IsConflict(frame.calls[i].conflict) =>
                   \A b \in WiderBuffers(call.safety_buffer) :
                       IsConflict(PairVerdict(i, b))

\* a check that is clear with its buffer and finds a conflict with a wider
\* one
C14_Witness ==
    /\ Checked
    /\ result.is_clear
    /\ \E i \in 1..Len(frame.calls) :
           /\ PairVerdict(i, call.safety_buffer) = None
           /\ \E b \in WiderBuffers(call.safety_buffer) :
                  IsConflict(PairVerdict(i, b))

\* the timestamps segment_conflict samples: time_samples of them, evenly
\* spaced over the intersection of the two time spans
SampleTimes(seg1, seg2, time_samples) ==
    LET time_points == linspace(RMax(seg1.t_start, seg2.t_start),
                                RMin(seg1.t_end, seg2.t_end), time_samples)
    IN  { time_points[i] : i \in 1..time_samples }

\* the squared distance of the two segments at timestamp t
DistanceAt(seg1, seg2, t, include_z) ==
    Norm2(VSub(position_at_time(seg1, t, include_z),
               position_at_time(seg2, t, include_z)))

\* C15: a Conflict returned by segment_conflict carries the first segment's
\* flight id as primary id, the second segment's flight id as conflicting
\* id, the buffer passed in, the minimum sampled distance, a sampled
\* timestamp at which the distance is that minimum, and as location the
\* first segment's position at that timestamp, of 2 coordinates in 2D mode
\* and 3 in 3D mode.
C15_ConflictFields ==
    (call.op = "segment_conflict" /\ IsConflict(result.value)) =>
        LET c == result.value
            ts == SampleTimes(call.seg1, call.seg2, call.time_samples)
        IN  /\ c.primary_flight_id = call.seg1.flight_id
            /\ c.conflicting_flight_id = call.seg2.flight_id
            /\ c.safety_buffer = call.safety_buffer
            /\ c.time \in ts
            /\ c.min_distance_sq =
                   DistanceAt(call.seg1, call.seg2, c.time, call.include_z)
            /\ \A t \in ts :
                   ~RLt(DistanceAt(call.seg1, call.seg2, t, call.include_z),
                        c.min_distance_sq)
            /\ c.location = position_at_time(call.seg1, c.time, call.include_z)
            /\ Len(c.location) = IF call.include_z THEN 3 ELSE 2

\* a 3D Conflict of two different missions, found inside the overlap window,
\* where the two drones are at different places and the first one is off
\* the ground
C15_Witness ==
    /\ call.op = "segment_conflict"
    /\ IsConflict(result.value)
    /\ call.include_z
    /\ call.seg1.flight_id # call.seg2.flight_id
    /\ result.value.location[3] # R(0)
    /\ result.value.location #
           position_at_time(call.seg2, result.value.time, call.include_z)
    /\ result.value.time # call.seg1.t_start
    /\ result.value.time # call.seg1.t_end

(***************************************************************************)
(* Properties of the detector on float timestamps (SpecFloat).             *)
(***************************************************************************)
\* C17: the timestamps compute_segment_times returns for a valid Flight
\* never decrease, and every segment build_segments returns has
\* t_start <= t_end, the last one included.
C17_TimesNeverDecrease ==
    /\ call.op = "compute_segment_times" =>
           \A i \in 1..(Len(result.value) - 1) :
               RLe(result.value[i], result.value[i + 1])
    /\ call.op = "build_segments" =>
           \A i \in 1..Len(result.value) :
               RLe(result.value[i].t_start, result.value[i].t_end)

\* C11: check_mission and segment_conflict never raise for well-formed
\* Flights: no call of either ends with an exception.
C11_NeverRaises ==
    (call.op \in {"check_mission", "segment_conflict"} /\ pc = "done") =>
        ~result.raised

(***************************************************************************)
(* Properties of the time-window functions (SpecWindow).                   *)
(***************************************************************************)
\* C21: time_windows_overlap and compute_overlap_window give the same
\* result for the windows (A, B) as for (B, A).
C21_OverlapSymmetric ==
    /\ call.op = "time_windows_overlap" =>
           result.value = time_windows_overlap(call.t2_start, call.t2_end,
                                               call.t1_start, call.t1_end)
    /\ call.op = "compute_overlap_window" =>
           result.value = compute_overlap_window(call.t2_start, call.t2_end,
                                                 call.t1_start, call.t1_end)

\* two different windows that overlap in part: the overlap is neither of them
C21_Witness ==
    /\ call.op = "compute_overlap_window"
    /\ RLt(call.t1_start, call.t2_start)
    /\ RLt(call.t1_end, call.t2_end)
    /\ result.value # None
    /\ result.value = <<call.t2_start, call.t1_end>>
    /\ RLt(call.t2_start, call.t1_end)

\* C22: compute_overlap_window returns no overlap exactly when the later of
\* the two starts is after the earlier of the two ends, and otherwise the
\* window (later start, earlier end); windows that touch at one instant
\* overlap in that instant.  Stated of the windows handed to a direct call
\* and of the time spans of the two segments handed to segment_conflict.
C22_Spans ==
    IF call.op = "compute_overlap_window"
    THEN <<call.t1_start, call.t1_end, call.t2_start, call.t2_end>>
    ELSE <<call.seg1.t_start, call.seg1.t_end,
           call.seg2.t_start, call.seg2.t_end>>

C22_NoOverlapExactly ==
    call.op \in {"compute_overlap_window", "segment_conflict"} =>
        LET s  == C22_Spans
            w  == compute_overlap_window(s[1], s[2], s[3], s[4])
            lo == RMax(s[1], s[3])
            hi == RMin(s[2], s[4])
        IN  /\ (w = None) <=> RLt(hi, lo)
            /\ w # None => w = <<lo, hi>>
            /\ call.op = "compute_overlap_window" => result.value = w

(***************************************************************************)
(* Properties of the two detectors side by side (SpecEnhanced).            *)
(***************************************************************************)
\* C23: detector.check_mission returns the same verdict and the same
\* conflict list as detector_enhanced.check_mission_high_accuracy called
\* with time_samples = 20 on the same arguments, and
\* detector_enhanced.check_mission returns what that call returns.
C23_SameAsHighAccuracy20 ==
    (pc = "done" /\ call.op \in {"check_mission",
                                 "detector_enhanced.check_mission"}) =>
        result = check_mission_high_accuracy(call.primary,
                                             call.simulated_flights,
                                             call.safety_buffer,
                                             call.include_z, 20)

\* detector.check_mission has returned a list with a Conflict in it, out of
\* several pairs of which some are clear, in a 3D check
C23_Witness ==
    /\ pc = "done"
    /\ call.op = "check_mission"
    /\ call.include_z
    /\ ~result.raised
    /\ Len(result.all_conflicts) >= 1
    /\ Len(result.all_conflicts) < Len(frame.calls)

(***************************************************************************)
(* Properties of the severity label (SpecSeverity).                        *)
(***************************************************************************)
\* the labels whose range holds violation_percent = (buffer - min_distance)
\* / buffer * 100
C24_Labels(min_distance, safety_buffer) ==
    LET pct == RDiv(RMul(R(100), RSub(safety_buffer, min_distance)),
                    safety_buffer)
    IN  { l \in {"low", "medium", "high", "critical"} :
            \/ l = "low" /\ RLt(pct, R(20))
            \/ l = "medium" /\ RLe(R(20), pct) /\ RLt(pct, R(50))
            \/ l = "high" /\ RLe(R(50), pct) /\ RLt(pct, R(80))
            \/ l = "critical" /\ RLe(R(80), pct) }

\* C24: the severity label of a Conflict is low when violation_percent <
\* 20, medium when 20 <= violation_percent < 50, high when 50 <=
\* violation_percent < 80 and critical when violation_percent >= 80; every
\* Conflict gets exactly one label, and whatever the label the Conflict is
\* one that is reported (min_distance < safety_buffer).
C24_SeverityBuckets ==
    call.op = "get_conflict_severity" =>
        /\ C24_Labels(call.min_distance, call.safety_buffer) = {result.value}
        /\ RLt(call.min_distance, call.safety_buffer)
        /\ flights = <<>> /\ frame = None

\* a Conflict exactly at a threshold: 20 percent is medium
C24_Witness ==
    /\ call.op = "get_conflict_severity"
    /\ call.min_distance = R(4)
    /\ call.safety_buffer = R(5)
    /\ result.value = "medium"

(***************************************************************************)
(* Properties of the interactive prompts (SpecInput).                      *)
(***************************************************************************)
\* C25: whatever the user types, the waypoint loop is left with at least 2
\* waypoints, a token that is not a number adds no waypoint and does not
\* advance the waypoint counter, and the Flight constructor is called only
\* with t_end > t_start and speed > 0, so that it does not raise.
C25_ValidatedBeforeConstruction ==
    /\ pc = "waypoint_prompt" => Len(frame.waypoints) = frame.waypoint_num - 1
    /\ pc \in {"timing_prompt", "speed_prompt"} => Len(frame.waypoints) >= 2
    /\ call.op = "Flight" =>
           /\ Len(call.waypoints) >= 2
           /\ FloatLt(call.t_start, call.t_end)
           /\ FloatLt(Num(0), call.speed)
           /\ ~result.raised

(***************************************************************************)
(* Properties of the static segment distance (SpecStatic).                 *)
(***************************************************************************)
\* the point of a segment at the fraction a of the way from start to end
C26_PointOn(seg, a, include_z) ==
    VAdd(to_array(seg.start, include_z),
         VScale(a, VSub(to_array(seg.end, include_z),
                        to_array(seg.start, include_z))))

C26_Fractions == {R(0), RDiv(R(1), R(2)), R(1)}

\* C26: segment_to_segment_distance returns the minimum distance between
\* the two static segments, 0 for segments that cross: no point of the one
\* is closer to a point of the other than the distance returned.
C26_MinimumDistance ==
    call.op = "segment_to_segment_distance" =>
        \A a \in C26_Fractions, b \in C26_Fractions :
            RLe(result.value,
                Norm2(VSub(C26_PointOn(call.seg1, a, call.include_z),
                           C26_PointOn(call.seg2, b, call.include_z))))

(***************************************************************************)
(* Further properties of segment_conflict and check_mission (SpecCross,    *)
(* Spec).                                                                  *)
(***************************************************************************)
\* the sampled timestamps at which the distance is the reported minimum
C27_TiedSamples ==
    { t \in SampleTimes(call.seg1, call.seg2, call.time_samples) :
        DistanceAt(call.seg1, call.seg2, t, call.include_z) =
            result.value.min_distance_sq }

\* C27: when several sampled timestamps attain the same minimum distance,
\* the Conflict reports the earliest of them.
C27_EarliestOfTies ==
    (call.op = "segment_conflict" /\ IsConflict(result.value)) =>
        /\ result.value.time \in C27_TiedSamples
        /\ \A t \in C27_TiedSamples : ~RLt(t, result.value.time)

\* two drones that keep their distance while the first one moves: every
\* sample ties, and the time reported is the start of the overlap window
C27_Witness ==
    /\ call.op = "segment_conflict"
    /\ IsConflict(result.value)
    /\ Cardinality(C27_TiedSamples) >= 3
    /\ call.seg1.start # call.seg1.end
    /\ result.value.time = call.seg1.t_start

\* what the pairwise detector returns in 2D mode for the i-th pair a check
\* evaluated
C28_PairIn2D(i) ==
    segment_conflict(
        frame.primary_segments[frame.calls[i].p],
        build_segments(call.simulated_flights[frame.calls[i].f])[frame.calls[i].s],
        call.safety_buffer, FALSE, call.time_samples)

\* C28: for the same missions, buffer and sample count, every segment pair
\* that conflicts in 3D mode conflicts in 2D mode, and its 2D minimum is no
\* larger than its 3D minimum; hence a check that would be clear in 2D mode
\* is clear in 3D mode.
C28_ConflictIn3DIsConflictIn2D ==
    /\ (call.op = "segment_conflict" /\ call.include_z
        /\ IsConflict(result.value)) =>
           LET flat == segment_conflict(call.seg1, call.seg2,
                                        call.safety_buffer, FALSE,
                                        call.time_samples)
           IN  /\ IsConflict(flat)
               /\ RLe(flat.min_distance_sq, result.value.min_distance_sq)
    /\ (Checked /\ call.include_z) =>
           /\ \A i \in 1..Len(frame.calls) :
                  IsConflict(frame.calls[i].conflict) => IsConflict(C28_PairIn2D(i))
           /\ (\A i \in 1..Len(frame.calls) : ~IsConflict(C28_PairIn2D(i)))
                  => result.is_clear

\* a pair that conflicts in 3D mode although the two drones are at
\* different altitudes when they are closest: in 2D mode the same pair
\* conflicts with a strictly smaller minimum
C28_Witness ==
    /\ call.op = "segment_conflict"
    /\ call.include_z
    /\ IsConflict(result.value)
    /\ LET flat == segment_conflict(call.seg1, call.seg2, call.safety_buffer,
                                    FALSE, call.time_samples)
       IN  IsConflict(flat)
           /\ RLt(flat.min_distance_sq, result.value.min_distance_sq)

C30_ExitStatus ==
    pc = "exited" =>
        /\ result.exit = 0 <=> (result.checked /\ ~result.raised /\ result.is_clear)
        /\ (result.checked /\ ~result.raised /\ result.all_conflicts # <<>>)
               => result.exit = 1
        /\ (call.op = "main" /\ call.entry = "cli") =>
               (result.exit = 1 /\ ~result.checked)

====
